---- MODULE Spec2Model ----
(***************************************************************************)
(* Model of server.js: the /analyze request handler (size-triggered        *)
(* compression, submission, the poll/backoff loop, temporary-file cleanup) *)
(* and the pure sentence splitter splitIntoSentences.                      *)
(*                                                                         *)
(* Texts are sequences of one-character strings.  Times are milliseconds,  *)
(* sizes are bytes.                                                        *)
(***************************************************************************)
EXTENDS Integers, Sequences, FiniteSets, TLC

(***************************************************************************)
(* Bounds of the model.                                                    *)
(***************************************************************************)
\* longest enumerated input text of the sentence splitter
MaxLen == 6
\* number of poll responses whose kinds and waits are logged
MaxLog == 4
\* longest page list of more than one entry, and longest list of lines
MaxPages == 2
MaxLines == 2

(***************************************************************************)
(* Program constants.                                                      *)
(***************************************************************************)
\* 10 * 1024 * 1024, the default of MAX_SIZE_BYTES
DEFAULT_MAX_SIZE_BYTES == 10485760
\* 50 * 1024 * 1024
AZURE_MAX_BYTES == 52428800
\* multerLimits.fileSize, 60 * 1024 * 1024
MULTER_FILE_SIZE == 62914560
TIMEOUT_MS == 120000
POLL_INTERVAL_MS == 1000
\* the literals of the 429 branch and of the 5xx branch of pollOperation
BACKOFF_BASE_MS == 1000
BACKOFF_CAP_MS == 30000
RETRY_5XX_MS == 2000

(***************************************************************************)
(* splitIntoSentences                                                      *)
(***************************************************************************)
Punct == {".", "?", "!"}

\* the characters the regex class \s and String.prototype.trim treat as
\* white space, as far as the inputs below use them
IsWs(c) == c \in {" ", "\n", "\r", "\t"}

RECURSIVE ReplaceCRLF(_)
\* .replace(/\r\n/g, " ")
ReplaceCRLF(s) ==
    IF Len(s) = 0 THEN << >>
    ELSE IF Len(s) >= 2 /\ s[1] = "\r" /\ s[2] = "\n"
         THEN <<" ">> \o ReplaceCRLF(SubSeq(s, 3, Len(s)))
         ELSE <<s[1]>> \o ReplaceCRLF(Tail(s))

\* .replace(/\n/g, " ")
ReplaceLF(s) == [i \in 1..Len(s) |-> IF s[i] = "\n" THEN " " ELSE s[i]]

RECURSIVE CollapseWs(_)
\* .replace(/\s+/g, " ")
CollapseWs(s) ==
    IF Len(s) = 0 THEN << >>
    ELSE IF IsWs(s[1])
         THEN IF Len(s) >= 2 /\ IsWs(s[2])
              THEN CollapseWs(Tail(s))
              ELSE <<" ">> \o CollapseWs(Tail(s))
         ELSE <<s[1]>> \o CollapseWs(Tail(s))

RECURSIVE TrimLeft(_)
TrimLeft(s) == IF Len(s) > 0 /\ IsWs(s[1]) THEN TrimLeft(Tail(s)) ELSE s

RECURSIVE TrimRight(_)
TrimRight(s) ==
    IF Len(s) > 0 /\ IsWs(s[Len(s)]) THEN TrimRight(SubSeq(s, 1, Len(s) - 1)) ELSE s

\* String.prototype.trim
Trim(s) == TrimRight(TrimLeft(s))

\* the four string operations before .split
Normalize(text) == Trim(CollapseWs(ReplaceLF(ReplaceCRLF(text))))

\* the indices at which /([.?!])\s+/ matches in s
MatchStarts(s) == {i \in 1..(Len(s) - 1) : s[i] \in Punct /\ IsWs(s[i + 1])}

Min(S) == CHOOSE x \in S : \A y \in S : x <= y

RECURSIVE WsRunEnd(_, _)
\* last index of the white-space run of s that starts at index i
WsRunEnd(s, i) == IF i < Len(s) /\ IsWs(s[i + 1]) THEN WsRunEnd(s, i + 1) ELSE i

RECURSIVE SplitPunctWs(_)
\* .split(/([.?!])\s+/g): the text before each match, then the captured
\* punctuation mark, and at the end the rest of the string
SplitPunctWs(s) ==
    IF MatchStarts(s) = {} THEN <<s>>
    ELSE LET i == Min(MatchStarts(s))
             j == WsRunEnd(s, i + 1)
         IN  <<SubSeq(s, 1, i - 1), <<s[i]>>>> \o SplitPunctWs(SubSeq(s, j + 1, Len(s)))

\* /[.?!]/.test(chunk): the chunk contains a mark anywhere
HasPunct(chunk) == \E i \in 1..Len(chunk) : chunk[i] \in Punct

\* one step of the .reduce callback
ReduceStep(acc, chunk) ==
    IF HasPunct(chunk) /\ Len(acc) > 0
    THEN [acc EXCEPT ![Len(acc)] = acc[Len(acc)] \o chunk]
    ELSE IF Trim(chunk) # << >>
         THEN Append(acc, Trim(chunk))
         ELSE acc

RECURSIVE ReduceChunks(_, _)
ReduceChunks(acc, chunks) ==
    IF Len(chunks) = 0 THEN acc
    ELSE ReduceChunks(ReduceStep(acc, Head(chunks)), Tail(chunks))

\* .map(s => s.trim()).filter(Boolean)
TrimAndFilter(ss) ==
    SelectSeq([i \in 1..Len(ss) |-> Trim(ss[i])], LAMBDA s : s # << >>)

splitIntoSentences(text) ==
    IF text = << >> THEN << >>
    ELSE TrimAndFilter(ReduceChunks(<< >>, SplitPunctWs(Normalize(text))))

RECURSIVE JoinWith(_, _)
\* Array.prototype.join
JoinWith(ss, sep) ==
    IF Len(ss) = 0 THEN << >>
    ELSE IF Len(ss) = 1 THEN ss[1]
         ELSE ss[1] \o sep \o JoinWith(Tail(ss), sep)

(***************************************************************************)
(* extractPagesFromAzureResult.  JSON values are records with a kind:      *)
(* a property that is missing has kind "absent".                           *)
(***************************************************************************)
AbsentText == [kind |-> "absent", s |-> << >>]
Str(chars) == [kind |-> "string", s |-> chars]

AbsentNum == [kind |-> "absent", n |-> 0]
Num(k) == [kind |-> "number", n |-> k]
NullNum == [kind |-> "null", n |-> 0]

\* JavaScript truthiness of a string and of a number property
TruthyText(t) == t.kind = "string" /\ t.s # << >>
TruthyNum(v) == v.kind = "number" /\ v.n # 0

\* l.text || l.content || ""
LineText(l) ==
    IF TruthyText(l.text) THEN l.text.s
    ELSE IF TruthyText(l.content) THEN l.content.s
    ELSE << >>

\* p.lines.map(l => l.text || l.content || "").join(" ")
JoinedLines(lines) == JoinWith([i \in 1..Len(lines) |-> LineText(lines[i])], <<" ">>)

\* the if / else-if chain that fills raw, and raw || ""
RawText(p) ==
    IF p.text.kind = "string" THEN p.text.s
    ELSE IF p.lines.kind = "list" THEN JoinedLines(p.lines.items)
    ELSE IF p.content.kind = "string" THEN p.content.s
    ELSE << >>

\* p.page || p.pageNumber || p.pageIndex || null
PageNumber(p) ==
    IF TruthyNum(p.page) THEN p.page
    ELSE IF TruthyNum(p.pageNumber) THEN p.pageNumber
    ELSE IF TruthyNum(p.pageIndex) THEN p.pageIndex
    ELSE NullNum

\* the map callback raises a TypeError: a property is read of null, be it the
\* page entry or a line whose text is asked for
EntryThrows(p) ==
    \/ p.kind = "null"
    \/ /\ p.text.kind # "string"
       /\ p.lines.kind = "list"
       /\ \E i \in 1..Len(p.lines.items) : p.lines.items[i].kind = "null"

\* JavaScript truthiness of the value under a page-list key
TruthyList(v) == v.kind \in {"object", "list"}

EmptyList == [kind |-> "list", items |-> << >>]

\* Candidates with the keys tried in the order pages, pageResults, readResults
Candidates_PagesFirst(analyze) ==
    IF TruthyList(analyze.pages) THEN analyze.pages
    ELSE IF TruthyList(analyze.pageResults) THEN analyze.pageResults
    ELSE IF TruthyList(analyze.readResults) THEN analyze.readResults
    ELSE EmptyList

\* analyze.readResults || analyze.pageResults || analyze.pages || analyze.pages || []
Candidates(analyze) ==
    IF TruthyList(analyze.readResults) THEN analyze.readResults
    ELSE IF TruthyList(analyze.pageResults) THEN analyze.pageResults
    ELSE IF TruthyList(analyze.pages) THEN analyze.pages
    ELSE EmptyList

\* data.analyzeResult || data
AnalyzePart(d) == IF d.hasAnalyzeResult THEN d.inner ELSE d.outer

\* Array.isArray(candidates) ? candidates : []
PagesOf(d) ==
    LET c == Candidates(AnalyzePart(d))
    IN  IF c.kind = "list" THEN c.items ELSE << >>

\* extractPagesFromAzureResult raises
ExtractThrows(d) == \E i \in 1..Len(PagesOf(d)) : EntryThrows(PagesOf(d)[i])

\* the array extractPagesFromAzureResult returns
extractPagesFromAzureResult(d) ==
    [i \in 1..Len(PagesOf(d)) |->
        [pageNumber |-> PageNumber(PagesOf(d)[i]), rawText |-> RawText(PagesOf(d)[i])]]

\* pagesOut of the handler
PagesOut(raw) ==
    [i \in 1..Len(raw) |->
        [pageNumber |-> raw[i].pageNumber,
         rawText |-> raw[i].rawText,
         sentences |-> splitIntoSentences(raw[i].rawText)]]

(***************************************************************************)
(* State                                                                   *)
(***************************************************************************)
VARIABLES
    GS_CMD,          \* "null", "gs" or "gswin64c": fixed by the startup detection
    MAX_SIZE_BYTES,  \* compression threshold read from the environment at startup
    file,            \* req.file: [present, size, name_ext]
    pc,              \* position of the handler
    workPath,        \* "orig" (= origPath) or "out" (= outPath)
    compressed,      \* the handler's flag
    disk,            \* temporary files of the request that exist on disk
    outSize,         \* size of the file at outPath, 0 while it does not exist
    finalSize,       \* finalStat.size, -1 before the second stat
    err,             \* the value thrown into the catch block
    resStatus,       \* HTTP status of the response sent, 0 before it is sent
    elapsed,         \* Date.now() - start inside pollOperation
    attempt,         \* the 429 counter of pollOperation
    wait,            \* delay of the pending setTimeout, 0 when none is pending
    \* history of the request, not read by the handler
    compressCalls,   \* calls of a compressor
    postCalls,       \* calls of axios.post
    created,         \* every temporary file that ever existed for the request
    run429,          \* 429 responses since polling began or the last 200 response
    log,             \* kinds of the first MaxLog poll responses
    totalWait,       \* sum of the waits of the logged responses
    \* more of the request
    postHttp,        \* HTTP status of the answer to the post, -1 before it, 0 for none
    opLocation,      \* operationLocation: "op", or "none" while there is none
    lastAnswer,      \* the answer to the latest status fetch
    fetched,         \* a status fetch has been issued
    unlinked,        \* paths fs.promises.unlink has been called on
    aborted,         \* the client has closed the connection
    fetchAfterAbort, \* a status fetch was issued after the client closed it
    \* the sentence splitter applied to one text
    segPc, text, sentences, rejoined, resegmented,
    \* the page extraction applied to one result document
    extPc, doc, pagesRaw, response

handlerVars == <<GS_CMD, MAX_SIZE_BYTES, file, pc, workPath, compressed, disk, outSize,
                 finalSize, err, resStatus, elapsed, attempt, wait,
                 compressCalls, postCalls, created, run429, log, totalWait,
                 postHttp, opLocation, lastAnswer, fetched, unlinked, aborted,
                 fetchAfterAbort>>
\* the part of the request's state most steps leave alone
auxVars == <<postHttp, opLocation, lastAnswer, fetched, unlinked, aborted, fetchAfterAbort>>
segVars == <<segPc, text, sentences, rejoined, resegmented>>
extVars == <<extPc, doc, pagesRaw, response>>
vars == <<handlerVars, segVars, extVars>>

(***************************************************************************)
(* Startup and inputs                                                      *)
(***************************************************************************)
\* the try/catch cascade around execSync("gs -v") and execSync("gswin64c -v")
DetectGhostscript(gsRuns, gswinRuns) ==
    IF gsRuns THEN "gs" ELSE IF gswinRuns THEN "gswin64c" ELSE "null"

\* values of MAX_SIZE_BYTES the environment may set: the default and one above
\* the remote ceiling
MaxSizeChoices == {DEFAULT_MAX_SIZE_BYTES, MULTER_FILE_SIZE}

\* sizes of an upload; multer refuses more than MULTER_FILE_SIZE
UploadSizes == {0, DEFAULT_MAX_SIZE_BYTES, DEFAULT_MAX_SIZE_BYTES + 1, AZURE_MAX_BYTES + 1}

\* sizes of a compressor's output
OutSizes == {AZURE_MAX_BYTES, AZURE_MAX_BYTES + 1}

\* path.extname(origName) of the uploads
NameExts == {".pdf", ".PDF", ".png", ".jpeg", ".txt"}

\* String.prototype.toLowerCase on the file extensions in use
ExtToLower(e) ==
    CASE e = ".PDF" -> ".pdf"
      [] e = ".PNG" -> ".png"
      [] e = ".JPG" -> ".jpg"
      [] OTHER -> e

ImageExts == {".png", ".jpg", ".jpeg", ".tiff", ".tif"}

NoFile == [present |-> FALSE, size |-> 0, name_ext |-> ""]
Uploads == [present : {TRUE}, size : UploadSizes, name_ext : NameExts]

NoErr == [status |-> 0, msg |-> "", http |-> 0]

\* no status fetch has been answered yet
NoAnswer == [http |-> -1, status |-> ""]

\* size of the file workPath names
WorkSize == IF workPath = "orig" THEN file.size ELSE outSize

InitHandler ==
    /\ \E gsRuns \in BOOLEAN, gswinRuns \in BOOLEAN :
          GS_CMD = DetectGhostscript(gsRuns, gswinRuns)
    /\ MAX_SIZE_BYTES \in MaxSizeChoices
    /\ file \in {NoFile} \cup Uploads
    /\ pc = "recv"
    /\ workPath = "orig"
    /\ compressed = FALSE
    /\ disk = IF file.present THEN {"orig"} ELSE {}
    /\ created = disk
    /\ outSize = 0
    /\ finalSize = -1
    /\ err = NoErr
    /\ resStatus = 0
    /\ elapsed = 0
    /\ attempt = 0
    /\ wait = 0
    /\ compressCalls = 0
    /\ postCalls = 0
    /\ run429 = 0
    /\ log = << >>
    /\ totalWait = 0
    /\ postHttp = -1
    /\ opLocation = "none"
    /\ lastAnswer = NoAnswer
    /\ fetched = FALSE
    /\ unlinked = {}
    /\ aborted = FALSE
    /\ fetchAfterAbort = FALSE

SegIdle ==
    /\ segPc = "off"
    /\ text = << >>
    /\ sentences = << >>
    /\ rejoined = << >>
    /\ resegmented = << >>

NoShape == [readResults |-> [kind |-> "absent", items |-> << >>],
            pageResults |-> [kind |-> "absent", items |-> << >>],
            pages |-> [kind |-> "absent", items |-> << >>]]
NoDoc == [hasAnalyzeResult |-> FALSE, inner |-> NoShape, outer |-> NoShape]
NoResponse == [status |-> 0, pageCount |-> 0, pages |-> << >>]

ExtIdle ==
    /\ extPc = "off"
    /\ doc = NoDoc
    /\ pagesRaw = << >>
    /\ response = NoResponse

Init == InitHandler /\ SegIdle /\ ExtIdle

(***************************************************************************)
(* The /analyze handler                                                    *)
(***************************************************************************)
\* a throw inside the try block: control passes to the catch block
Throw(e) ==
    /\ err' = e
    /\ pc' = "catch"

\* the status property of the error axios rejects with on an HTTP error
\* status: axios sets AxiosError.status to response.status from version 1.7.5
\* on and leaves it undefined (0 here) before; no version is pinned.  An
\* error without a response has none.
AxiosErrorStatus(http) == IF http = 0 THEN {0} ELSE {0, http}

\* app.post("/analyze") up to the first await: the missing-file response, or
\* the locals of a request that carries a file
Entry ==
    /\ pc = "recv"
    /\ IF ~file.present
       THEN /\ resStatus' = 400
            /\ pc' = "done"
       ELSE /\ pc' = "stat"
            /\ UNCHANGED resStatus
    /\ UNCHANGED <<GS_CMD, MAX_SIZE_BYTES, file, workPath, compressed, disk, outSize,
                   finalSize, err, elapsed, attempt, wait, compressCalls, postCalls,
                   created, run429, log, totalWait, segVars, extVars, auxVars>>

\* CompressionChoice with the threshold test written >=
CompressionChoice_AtThreshold(size, nameExt) ==
    IF size >= MAX_SIZE_BYTES
    THEN LET ext == ExtToLower(nameExt)
         IN  IF ext = ".pdf"
             THEN IF GS_CMD = "null" THEN "no_ghostscript" ELSE "pdf"
             ELSE IF ext \in ImageExts THEN "image" ELSE "unsupported"
    ELSE "none"

\* CompressionChoice without the test of GS_CMD
CompressionChoice_NoGsCheck(size, nameExt) ==
    IF size > MAX_SIZE_BYTES
    THEN LET ext == ExtToLower(nameExt)
         IN  IF ext = ".pdf" THEN "pdf"
             ELSE IF ext \in ImageExts THEN "image" ELSE "unsupported"
    ELSE "none"

\* CompressionChoice that lets an unsupported extension through uncompressed
CompressionChoice_UnsupportedPasses(size, nameExt) ==
    IF size > MAX_SIZE_BYTES
    THEN LET ext == ExtToLower(nameExt)
         IN  IF ext = ".pdf"
             THEN IF GS_CMD = "null" THEN "no_ghostscript" ELSE "pdf"
             ELSE IF ext \in ImageExts THEN "image" ELSE "none"
    ELSE "none"

\* the branch the handler takes on the size and the extension of the upload
CompressionChoice(size, nameExt) ==
    IF size > MAX_SIZE_BYTES
    THEN LET ext == ExtToLower(nameExt)
         IN  IF ext = ".pdf"
             THEN IF GS_CMD = "null" THEN "no_ghostscript" ELSE "pdf"
             ELSE IF ext \in ImageExts THEN "image" ELSE "unsupported"
    ELSE "none"

\* after stat(origPath): throw, start a compressor, or go on to the second stat
SelectCompression ==
    /\ pc = "stat"
    /\ LET choice == CompressionChoice(file.size, file.name_ext)
       IN  CASE choice = "none" ->
                  /\ pc' = "final_stat"
                  /\ UNCHANGED <<err, compressCalls>>
             [] choice = "no_ghostscript" ->
                  /\ Throw([status |-> 413, msg |-> "no_ghostscript", http |-> 0])
                  /\ UNCHANGED compressCalls
             [] choice = "unsupported" ->
                  /\ Throw([status |-> 415, msg |-> "unsupported_type", http |-> 0])
                  /\ UNCHANGED compressCalls
             [] choice = "pdf" ->
                  /\ pc' = "compress_pdf"
                  /\ compressCalls' = compressCalls + 1
                  /\ UNCHANGED err
             [] choice = "image" ->
                  /\ pc' = "compress_img"
                  /\ compressCalls' = compressCalls + 1
                  /\ UNCHANGED err
    /\ UNCHANGED <<GS_CMD, MAX_SIZE_BYTES, file, workPath, compressed, disk, outSize,
                   finalSize, resStatus, elapsed, attempt, wait, postCalls,
                   created, run429, log, totalWait, segVars, extVars, auxVars>>

\* what a compressor can do: write outPath and resolve, reject before it wrote
\* anything, or reject after it created outPath
CompressOutcomes == {"ok", "fail_no_output", "fail_with_output"}

\* the assignment after an awaited compressor: only a resolved promise reaches it
WorkPathAfter(outcome) == IF outcome = "ok" THEN "out" ELSE workPath

CompressSettles(outcome, sz) ==
    /\ IF outcome = "fail_no_output"
       THEN UNCHANGED <<disk, created, outSize>>
       ELSE /\ disk' = disk \cup {"out"}
            /\ created' = created \cup {"out"}
            /\ outSize' = sz
    /\ workPath' = WorkPathAfter(outcome)
    /\ IF outcome = "ok"
       THEN /\ compressed' = TRUE
            /\ pc' = "final_stat"
            /\ UNCHANGED err
       ELSE /\ Throw([status |-> 0, msg |-> "compress_failed", http |-> 0])
            /\ UNCHANGED compressed
    /\ UNCHANGED <<GS_CMD, MAX_SIZE_BYTES, file, finalSize, resStatus, elapsed,
                   attempt, wait, compressCalls, postCalls, run429, log, totalWait,
                   segVars, extVars, auxVars>>

\* compressPdfWithGhostscriptSpawn settles: exit code 0, a spawn error, or a
\* non-zero exit code with or without an output file
CompressPdfSettles ==
    /\ pc = "compress_pdf"
    /\ \E outcome \in CompressOutcomes, sz \in OutSizes : CompressSettles(outcome, sz)

\* compressImage settles: toFile resolved, metadata rejected, or toFile rejected
CompressImageSettles ==
    /\ pc = "compress_img"
    /\ \E outcome \in CompressOutcomes, sz \in OutSizes : CompressSettles(outcome, sz)

\* OverCeiling on the size of the upload instead of the working file
OverCeiling_OrigSize(size) == file.size > AZURE_MAX_BYTES

\* the test of the size measured by the second stat
OverCeiling(size) == size > AZURE_MAX_BYTES

\* stat(workPath), the ceiling test, and the call of postAnalyzeBinary
FinalStat ==
    /\ pc = "final_stat"
    /\ finalSize' = WorkSize
    /\ IF OverCeiling(WorkSize)
       THEN /\ Throw([status |-> 413, msg |-> "too_large", http |-> 0])
            /\ UNCHANGED postCalls
       ELSE /\ pc' = "post"
            /\ postCalls' = postCalls + 1
            /\ UNCHANGED err
    /\ UNCHANGED <<GS_CMD, MAX_SIZE_BYTES, file, workPath, compressed, disk, outSize,
                   resStatus, elapsed, attempt, wait, compressCalls,
                   created, run429, log, totalWait, segVars, extVars, auxVars>>

\* validateStatus of the post
ValidPostStatus(s) == (s >= 200 /\ s < 300) \/ s = 202

\* answers to the post: an HTTP status (0: no response) and whether the
\* operation-location header is there
PostAnswers == [http : {0, 202, 400, 503}, header : BOOLEAN]

\* postAnalyzeBinary settles; on an operation location pollOperation begins
PostSettles ==
    /\ pc = "post"
    /\ \E a \in PostAnswers :
          /\ postHttp' = a.http
          /\ IF ~ValidPostStatus(a.http)
             THEN /\ \E st \in AxiosErrorStatus(a.http) :
                        Throw([status |-> st, msg |-> "submit_failed", http |-> a.http])
                  /\ UNCHANGED <<elapsed, attempt, opLocation>>
             ELSE IF ~a.header
                  THEN /\ Throw([status |-> 0, msg |-> "no_operation_location", http |-> 0])
                       /\ UNCHANGED <<elapsed, attempt, opLocation>>
                  ELSE /\ opLocation' = "op"
                       /\ elapsed' = 0
                       /\ attempt' = 0
                       /\ pc' = "poll_top"
                       /\ UNCHANGED err
    /\ UNCHANGED <<GS_CMD, MAX_SIZE_BYTES, file, workPath, compressed, disk, outSize,
                   finalSize, resStatus, wait, compressCalls, postCalls,
                   created, run429, log, totalWait, segVars, extVars,
                   lastAnswer, fetched, unlinked, aborted, fetchAfterAbort>>

(***************************************************************************)
(* pollOperation                                                           *)
(***************************************************************************)
RECURSIVE Pow2(_)
Pow2(n) == IF n <= 0 THEN 1 ELSE 2 * Pow2(n - 1)

Min2(a, b) == IF a <= b THEN a ELSE b

\* Backoff without the ceiling
Backoff_NoCap(n) == BACKOFF_BASE_MS * Pow2(n)

\* Math.min(1000 * 2 ** attempt, 30_000), attempt already incremented
Backoff(n) == Min2(BACKOFF_BASE_MS * Pow2(n), BACKOFF_CAP_MS)

\* TimedOut with the deadline one backoff ceiling late
TimedOut_Late(e) == e > TIMEOUT_MS + BACKOFF_CAP_MS

\* the loop's deadline test
TimedOut(e) == e > TIMEOUT_MS

\* status >= 500 && status < 600
Is5xx(status) == status >= 500 /\ status < 600

\* (data.status || "").toLowerCase() on the status words in use
StatusToLower(st) ==
    CASE st = "Succeeded" -> "succeeded"
      [] st = "Failed" -> "failed"
      [] st = "Running" -> "running"
      [] OTHER -> st

\* answers to a status fetch: a 2xx with a status word ("" when the body has
\* none), an HTTP error status, or no response at all (http 0)
PollAnswers ==
    [http : {200}, status : {"", "running", "succeeded", "Succeeded", "failed"}]
    \cup [http : {0, 404, 429, 503}, status : {""}]

\* PollBranch that goes on polling after 'failed'
PollBranch_FailedKeepsPolling(a) ==
    IF a.http >= 200 /\ a.http < 300
    THEN IF StatusToLower(a.status) = "succeeded" THEN "succeeded" ELSE "running"
    ELSE IF a.http = 429 THEN "h429"
         ELSE IF Is5xx(a.http) THEN "h5xx"
         ELSE "rethrow"

\* PollBranch that returns the payload of any final status
PollBranch_FailedReturns(a) ==
    IF a.http >= 200 /\ a.http < 300
    THEN IF StatusToLower(a.status) \in {"succeeded", "failed"} THEN "succeeded"
         ELSE "running"
    ELSE IF a.http = 429 THEN "h429"
         ELSE IF Is5xx(a.http) THEN "h5xx"
         ELSE "rethrow"

\* the branch of the loop body an answer takes
PollBranch(a) ==
    IF a.http >= 200 /\ a.http < 300
    THEN IF StatusToLower(a.status) = "succeeded" THEN "succeeded"
         ELSE IF StatusToLower(a.status) = "failed" THEN "failed"
         ELSE "running"
    ELSE IF a.http = 429 THEN "h429"
         ELSE IF Is5xx(a.http) THEN "h5xx"
         ELSE "rethrow"

\* time a status fetch takes
FetchDurations == {0, POLL_INTERVAL_MS}

\* AttemptAfterWait without the reset
AttemptAfterWait_NoReset(sleepPc, n) == n

\* the counter after the wait that follows an answer
AttemptAfterWait(sleepPc, n) == IF sleepPc = "sleep_running" THEN 0 ELSE n

\* the log keeps the first MaxLog answers of a poll run; a longer run is
\* logged as <<"more">> with no total
Logged(kind, w) ==
    IF log # <<"more">> /\ Len(log) < MaxLog
    THEN /\ log' = Append(log, kind)
         /\ totalWait' = totalWait + w
    ELSE /\ log' = <<"more">>
         /\ totalWait' = 0

\* top of the while loop: the deadline test, then axios.get is issued
PollTop ==
    /\ pc = "poll_top"
    /\ IF TimedOut(elapsed)
       THEN /\ Throw([status |-> 0, msg |-> "timeout", http |-> 0])
            /\ UNCHANGED <<fetched, fetchAfterAbort>>
       ELSE /\ pc' = "poll_fetch"
            /\ fetched' = TRUE
            /\ fetchAfterAbort' = (fetchAfterAbort \/ aborted)
            /\ UNCHANGED err
    /\ UNCHANGED <<GS_CMD, MAX_SIZE_BYTES, file, workPath, compressed, disk, outSize,
                   finalSize, resStatus, elapsed, attempt, wait, compressCalls,
                   postCalls, created, run429, log, totalWait, segVars, extVars,
                   postHttp, opLocation, lastAnswer, unlinked, aborted>>

\* axios.get settles: return, throw, or start one of the three timers
PollSettles ==
    /\ pc = "poll_fetch"
    /\ \E a \in PollAnswers, d \in FetchDurations :
          LET branch == PollBranch(a)
          IN  /\ elapsed' = elapsed + d
              /\ lastAnswer' = a
              /\ CASE branch = "succeeded" ->
                        /\ pc' = "normalize"
                        /\ Logged(branch, 0)
                        /\ UNCHANGED <<err, attempt, wait, run429>>
                   [] branch = "failed" ->
                        /\ Throw([status |-> 0, msg |-> "operation_failed", http |-> 0])
                        /\ Logged(branch, 0)
                        /\ UNCHANGED <<attempt, wait, run429>>
                   [] branch = "running" ->
                        /\ pc' = "sleep_running"
                        /\ wait' = POLL_INTERVAL_MS
                        /\ run429' = 0
                        /\ Logged(branch, POLL_INTERVAL_MS)
                        /\ UNCHANGED <<err, attempt>>
                   [] branch = "h429" ->
                        /\ pc' = "sleep_429"
                        /\ attempt' = attempt + 1
                        /\ wait' = Backoff(attempt + 1)
                        /\ run429' = run429 + 1
                        /\ Logged(branch, Backoff(attempt + 1))
                        /\ UNCHANGED err
                   [] branch = "h5xx" ->
                        /\ pc' = "sleep_5xx"
                        /\ wait' = RETRY_5XX_MS
                        /\ Logged(branch, RETRY_5XX_MS)
                        /\ UNCHANGED <<err, attempt, run429>>
                   [] branch = "rethrow" ->
                        /\ \E st \in AxiosErrorStatus(a.http) :
                              Throw([status |-> st, msg |-> "poll_error", http |-> a.http])
                        /\ Logged(branch, 0)
                        /\ UNCHANGED <<attempt, wait, run429>>
    /\ UNCHANGED <<GS_CMD, MAX_SIZE_BYTES, file, workPath, compressed, disk, outSize,
                   finalSize, resStatus, compressCalls, postCalls, created, segVars, extVars,
                   postHttp, opLocation, fetched, unlinked, aborted, fetchAfterAbort>>

\* the pending setTimeout fires and the loop goes round
TimerFires ==
    /\ pc \in {"sleep_running", "sleep_429", "sleep_5xx"}
    /\ elapsed' = elapsed + wait
    /\ wait' = 0
    /\ attempt' = AttemptAfterWait(pc, attempt)
    /\ pc' = "poll_top"
    /\ UNCHANGED <<GS_CMD, MAX_SIZE_BYTES, file, workPath, compressed, disk, outSize,
                   finalSize, err, resStatus, compressCalls, postCalls, created,
                   run429, log, totalWait, segVars, extVars, auxVars>>

(***************************************************************************)
(* The two ends of the handler                                             *)
(***************************************************************************)
\* the paths the success path calls unlink on
UnlinksOnSuccess == {"orig"} \cup (IF compressed /\ workPath # "orig" THEN {workPath} ELSE {})

\* the paths the catch block calls unlink on
UnlinksOnError == {"orig"} \cup (IF workPath # "orig" THEN {workPath} ELSE {})

\* the unlink calls after the pages are built
CleanupOnSuccess(d) == d \ UnlinksOnSuccess

\* the unlink calls of the catch block
CleanupOnError(d) == d \ UnlinksOnError

\* pages are extracted and split and the files unlinked; a result document
\* the extraction cannot read raises a TypeError instead
Respond ==
    /\ pc = "normalize"
    /\ \E readable \in BOOLEAN :
          IF readable
          THEN /\ disk' = CleanupOnSuccess(disk)
               /\ unlinked' = unlinked \cup UnlinksOnSuccess
               /\ pc' = "reply_ok"
               /\ UNCHANGED err
          ELSE /\ Throw([status |-> 0, msg |-> "type_error", http |-> 0])
               /\ UNCHANGED <<disk, unlinked>>
    /\ UNCHANGED <<GS_CMD, MAX_SIZE_BYTES, file, workPath, compressed, outSize,
                   finalSize, resStatus, elapsed, attempt, wait, compressCalls, postCalls,
                   created, run429, log, totalWait, segVars, extVars,
                   postHttp, opLocation, lastAnswer, fetched, aborted, fetchAfterAbort>>

\* res.json of the success path
SendJson ==
    /\ pc = "reply_ok"
    /\ resStatus' = 200
    /\ pc' = "done"
    /\ UNCHANGED <<GS_CMD, MAX_SIZE_BYTES, file, workPath, compressed, disk, outSize,
                   finalSize, err, elapsed, attempt, wait, compressCalls, postCalls,
                   created, run429, log, totalWait, segVars, extVars, auxVars>>

\* the status of the error response
ErrorStatus(e) == IF e.status # 0 THEN e.status ELSE 500

\* the catch block: the unlink calls
Catch ==
    /\ pc = "catch"
    /\ disk' = CleanupOnError(disk)
    /\ unlinked' = unlinked \cup UnlinksOnError
    /\ pc' = "reply_error"
    /\ UNCHANGED <<GS_CMD, MAX_SIZE_BYTES, file, workPath, compressed, outSize,
                   finalSize, err, resStatus, elapsed, attempt, wait, compressCalls,
                   postCalls, created, run429, log, totalWait, segVars, extVars,
                   postHttp, opLocation, lastAnswer, fetched, aborted, fetchAfterAbort>>

\* the catch block: the error response
SendError ==
    /\ pc = "reply_error"
    /\ resStatus' = ErrorStatus(err)
    /\ pc' = "done"
    /\ UNCHANGED <<GS_CMD, MAX_SIZE_BYTES, file, workPath, compressed, disk, outSize,
                   finalSize, err, elapsed, attempt, wait, compressCalls, postCalls,
                   created, run429, log, totalWait, segVars, extVars, auxVars>>

\* the client closes the connection while pollOperation runs; neither the
\* handler nor pollOperation registers a listener for it
ClientAborts ==
    /\ pc \in {"poll_top", "poll_fetch", "sleep_running", "sleep_429", "sleep_5xx"}
    /\ ~aborted
    /\ aborted' = TRUE
    /\ UNCHANGED <<GS_CMD, MAX_SIZE_BYTES, file, pc, workPath, compressed, disk, outSize,
                   finalSize, err, resStatus, elapsed, attempt, wait, compressCalls,
                   postCalls, created, run429, log, totalWait, segVars, extVars,
                   postHttp, opLocation, lastAnswer, fetched, unlinked, fetchAfterAbort>>

Next ==
    \/ Entry
    \/ SelectCompression
    \/ CompressPdfSettles
    \/ CompressImageSettles
    \/ FinalStat
    \/ PostSettles
    \/ PollTop
    \/ PollSettles
    \/ TimerFires
    \/ Respond
    \/ SendJson
    \/ Catch
    \/ SendError

Spec == Init /\ [][Next]_vars

\* Requests on a server with Ghostscript and the default threshold.  Every
\* pending promise settles and every timer fires: the event loop runs each
\* callback that is due, and each action of Next is such a callback.
InitLive ==
    /\ Init
    /\ GS_CMD = "gs"
    /\ MAX_SIZE_BYTES = DEFAULT_MAX_SIZE_BYTES
    /\ file \in {NoFile,
                 [present |-> TRUE, size |-> 0, name_ext |-> ".txt"],
                 [present |-> TRUE, size |-> DEFAULT_MAX_SIZE_BYTES + 1, name_ext |-> ".pdf"],
                 [present |-> TRUE, size |-> DEFAULT_MAX_SIZE_BYTES + 1, name_ext |-> ".png"]}

LiveSpec == InitLive /\ [][Next]_vars /\ WF_vars(Next)

\* the same requests, with a client that may close the connection during
\* the polling
NextAbort ==
    \/ Next
    \/ ClientAborts

SpecAbort == InitLive /\ [][NextAbort]_vars

(***************************************************************************)
(* The sentence splitter on its own: every text over Alphabet of at most   *)
(* MaxLen characters, and the text of the documented example.              *)
(***************************************************************************)
Alphabet == {"a", ".", "!", " ", "\n"}

ExampleText ==
    <<"H", "e", "l", "l", "o", " ", "w", "o", "r", "l", "d", ".", " ",
      "I", "s", " ", "t", "h", "i", "s", " ", "r", "e", "a", "l", "?", " ",
      "Y", "e", "s", "!", "!">>

Texts == UNION {[1..n -> Alphabet] : n \in 0..MaxLen} \cup {ExampleText}

InitSeg ==
    /\ InitHandler
    /\ ~file.present
    /\ GS_CMD = "null"
    /\ MAX_SIZE_BYTES = DEFAULT_MAX_SIZE_BYTES
    /\ ExtIdle
    /\ segPc = "input"
    /\ text \in Texts
    /\ sentences = << >>
    /\ rejoined = << >>
    /\ resegmented = << >>

\* sentences = splitIntoSentences(text)
Segment ==
    /\ segPc = "input"
    /\ sentences' = splitIntoSentences(text)
    /\ segPc' = "split"
    /\ UNCHANGED <<handlerVars, extVars, text, rejoined, resegmented>>

\* rejoined = sentences.join(" ")
Rejoin ==
    /\ segPc = "split"
    /\ rejoined' = JoinWith(sentences, <<" ">>)
    /\ segPc' = "joined"
    /\ UNCHANGED <<handlerVars, extVars, text, sentences, resegmented>>

\* resegmented = splitIntoSentences(rejoined)
Resegment ==
    /\ segPc = "joined"
    /\ resegmented' = splitIntoSentences(rejoined)
    /\ segPc' = "resplit"
    /\ UNCHANGED <<handlerVars, extVars, text, sentences, rejoined>>

NextSeg ==
    \/ Segment
    \/ Rejoin
    \/ Resegment

SpecSeg == InitSeg /\ [][NextSeg]_vars

(***************************************************************************)
(* The page extraction as a specification of its own: one result document  *)
(* of status "succeeded" is extracted and the response is built from it.   *)
(***************************************************************************)
SeqsUpTo(S, n) == UNION {[1..k -> S] : k \in 0..n}

TextValues == {AbsentText, Str(<< >>), Str(<<"t", ".", " ", "u", ".">>)}
ContentValues == {AbsentText, Str(<<"c">>)}
NumValues == {AbsentNum, Num(0), Num(2)}

ObjLine(t, c) == [kind |-> "object", text |-> t, content |-> c]
NullLine == [kind |-> "null", text |-> AbsentText, content |-> AbsentText]
LineValues ==
    { ObjLine(Str(<<"x">>), AbsentText), ObjLine(AbsentText, Str(<<"y">>)),
      ObjLine(Str(<< >>), Str(<<"y">>)), ObjLine(AbsentText, AbsentText), NullLine }

AbsentLines == [kind |-> "absent", items |-> << >>]
LinesValues ==
    {AbsentLines, [kind |-> "object", items |-> << >>]}
        \cup {[kind |-> "list", items |-> ls] : ls \in SeqsUpTo(LineValues, MaxLines)}

ObjEntry(t, ls, c, pg, pn, pi) ==
    [kind |-> "object", text |-> t, lines |-> ls, content |-> c,
     page |-> pg, pageNumber |-> pn, pageIndex |-> pi]
\* a page entry that is null, and one that is a number
NullEntry ==
    [kind |-> "null", text |-> AbsentText, lines |-> AbsentLines, content |-> AbsentText,
     page |-> AbsentNum, pageNumber |-> AbsentNum, pageIndex |-> AbsentNum]
ScalarEntry == [NullEntry EXCEPT !.kind = "scalar"]

\* entries that vary in their text fields, and entries that vary in their
\* numbering fields
TextEntries ==
    {ObjEntry(t, ls, c, Num(2), AbsentNum, AbsentNum) :
        t \in TextValues, ls \in LinesValues, c \in ContentValues}
NumberedEntries ==
    {ObjEntry(Str(<<"t", ".">>), AbsentLines, AbsentText, pg, pn, pi) :
        pg \in NumValues, pn \in NumValues, pi \in NumValues}
Entries == TextEntries \cup NumberedEntries \cup {NullEntry, ScalarEntry}

EntryA == ObjEntry(Str(<<"a", ".">>), AbsentLines, AbsentText, Num(1), AbsentNum, AbsentNum)
EntryB ==
    ObjEntry(AbsentText, [kind |-> "list", items |-> <<ObjLine(Str(<<"x">>), AbsentText)>>],
             Str(<<"c">>), AbsentNum, AbsentNum, Num(0))
SmallEntries == {EntryA, EntryB, NullEntry}

AbsentList == [kind |-> "absent", items |-> << >>]
NullList == [kind |-> "null", items |-> << >>]
ObjectList == [kind |-> "object", items |-> << >>]
List(items) == [kind |-> "list", items |-> items]

\* values under readResults: every one-entry list, and short lists of the
\* small entries
ReadResultsValues ==
    {AbsentList, NullList, ObjectList}
        \cup {List(<<e>>) : e \in Entries}
        \cup {List(es) : es \in SeqsUpTo(SmallEntries, MaxPages)}
OtherListValues ==
    {AbsentList, NullList, EmptyList, List(<<EntryA>>), List(<<EntryB, EntryA>>)}

Shapes == [readResults : ReadResultsValues, pageResults : OtherListValues,
           pages : OtherListValues]
OuterPagesShape == [NoShape EXCEPT !.pages = List(<<EntryA, EntryA, EntryB>>)]

\* the document has its page lists at the top level, or under analyzeResult
\* (and then perhaps page lists at the top level as well)
Docs ==
    {[hasAnalyzeResult |-> FALSE, inner |-> NoShape, outer |-> sh] : sh \in Shapes}
        \cup {[hasAnalyzeResult |-> TRUE, inner |-> sh, outer |-> o] :
                sh \in Shapes, o \in {NoShape, OuterPagesShape}}

InitExt ==
    /\ InitHandler
    /\ ~file.present
    /\ GS_CMD = "null"
    /\ MAX_SIZE_BYTES = DEFAULT_MAX_SIZE_BYTES
    /\ SegIdle
    /\ extPc = "input"
    /\ doc \in Docs
    /\ pagesRaw = << >>
    /\ response = NoResponse

\* const pagesRaw = extractPagesFromAzureResult(result); a TypeError raised
\* by the map callback leaves the try block
Extract ==
    /\ extPc = "input"
    /\ IF ExtractThrows(doc)
         THEN /\ extPc' = "threw"
              /\ UNCHANGED pagesRaw
         ELSE /\ extPc' = "extracted"
              /\ pagesRaw' = extractPagesFromAzureResult(doc)
    /\ UNCHANGED <<handlerVars, segVars, doc, response>>

\* pagesOut and res.json({ filename, pageCount, pages })
BuildResponse ==
    /\ extPc = "extracted"
    /\ response' = [status |-> 200, pageCount |-> Len(PagesOut(pagesRaw)),
                    pages |-> PagesOut(pagesRaw)]
    /\ extPc' = "built"
    /\ UNCHANGED <<handlerVars, segVars, doc, pagesRaw>>

\* the catch block: a TypeError has no status, the answer is 500
ExtractFailed ==
    /\ extPc = "threw"
    /\ response' = [status |-> 500, pageCount |-> 0, pages |-> << >>]
    /\ extPc' = "failed"
    /\ UNCHANGED <<handlerVars, segVars, doc, pagesRaw>>

NextExt ==
    \/ Extract
    \/ BuildResponse
    \/ ExtractFailed

SpecExt == InitExt /\ [][NextExt]_vars

(***************************************************************************)
(* Claims                                                                  *)
(***************************************************************************)

\* C1: once a request that carried a file has been answered, neither the
\* uploaded file nor the "-compressed" output file is left on disk.
C1_NoTempFileRemains ==
    (pc = "done" /\ file.present) => disk = {}

ExampleSentences ==
    << <<"H", "e", "l", "l", "o", " ", "w", "o", "r", "l", "d", ".">>,
       <<"I", "s", " ", "t", "h", "i", "s", " ", "r", "e", "a", "l", "?">>,
       <<"Y", "e", "s", "!", "!">> >>

\* C2: splitIntoSentences starts a new sentence after every terminal mark
\* that is followed by white space and leaves the mark at the end of the
\* sentence it ends: one sentence more than there are such marks, each but
\* the last ending in a mark; the documented example yields its three
\* sentences.
C2_SplitsAfterEveryMark ==
    segPc # "input" =>
        LET n == Normalize(text)
        IN  /\ n # << >> => Len(sentences) = Cardinality(MatchStarts(n)) + 1
            /\ \A i \in 1..(Len(sentences) - 1) :
                  sentences[i][Len(sentences[i])] \in Punct
            /\ text = ExampleText => sentences = ExampleSentences

\* C3: the sentences joined with single spaces are the white-space
\* normalized input.
C3_RejoinIsNormalizedInput ==
    segPc \in {"joined", "resplit"} => rejoined = Normalize(text)

\* C4: splitting the rejoined sentences again yields the same sentences.
C4_Idempotent ==
    segPc = "resplit" => resegmented = sentences

PollPcs == {"poll_top", "poll_fetch", "sleep_running", "sleep_429", "sleep_5xx"}

\* pollOperation ends on an answer that is not retryable: 'succeeded',
\* 'failed', or an error other than 429 and 5xx
EndsOnTerminalAnswer ==
    \/ pc' = "normalize"
    \/ err'.msg = "operation_failed"
    \/ err'.msg = "poll_error" /\ err'.http # 429 /\ ~(err'.http >= 500 /\ err'.http < 600)

\* C5: no status fetch is issued once more than TIMEOUT_MS have elapsed since
\* polling began; pollOperation ends only on a terminal answer or with the
\* timeout error; and it always ends, so a service that never gives a
\* terminal answer leads to the timeout error.
C5_PollTimeout ==
    /\ [](pc = "poll_fetch" => elapsed <= TIMEOUT_MS)
    /\ [][(pc \in PollPcs /\ pc' \notin PollPcs)
             => (EndsOnTerminalAnswer \/ (err'.msg = "timeout" /\ elapsed > TIMEOUT_MS))]_vars
    /\ (pc \in PollPcs) ~> (pc \notin PollPcs)

\* a poll run of retryable answers only has ended with the timeout error
C5_Witness ==
    /\ pc = "done"
    /\ err.msg = "timeout"
    /\ resStatus = 500
    /\ log = <<"more">>

\* C6 as stated: the wait after the k-th consecutive 429 is
\* min(POLL_INTERVAL_MS * 2^(k-1), ceiling), the first being the poll interval.
C6_BackoffStartsAtPollInterval ==
    pc = "sleep_429" =>
        wait = Min2(POLL_INTERVAL_MS * Pow2(run429 - 1), BACKOFF_CAP_MS)

ThreeThenSucceeded == <<"h429", "h429", "h429", "succeeded">>

\* C6 amended: the wait after a 429 is min(1000 * 2^k, 30000) ms, k counting
\* the 429 answers since polling began or since the last 'still running'
\* answer: 2000, 4000, 8000, 16000, 30000, ...; after three 429 answers and
\* then 'succeeded' the waits sum to 14000 ms and the payload is returned.
C6_BackoffDoublesFromTwiceBase ==
    /\ pc = "sleep_429" =>
          /\ run429 >= 1
          /\ wait = Min2(BACKOFF_BASE_MS * Pow2(run429), BACKOFF_CAP_MS)
    /\ log = ThreeThenSucceeded =>
          /\ totalWait = 2000 + 4000 + 8000
          /\ pc \notin PollPcs
          /\ err.msg \notin {"timeout", "operation_failed", "poll_error"}

\* three 429 answers, then 'succeeded': pollOperation has returned
C6_Witness ==
    /\ log = ThreeThenSucceeded
    /\ pc = "normalize"

\* C7: between two fetches the counter is the number of 429 answers since
\* polling began or since the last 'still running' answer, whatever 5xx
\* answers came in between; so the first 429 after a 'still running' answer
\* waits the initial backoff again.
C7_CounterResetsOnRunning ==
    /\ pc \in {"poll_top", "poll_fetch"} => attempt = run429
    /\ (pc = "sleep_429" /\ run429 = 1) => wait = 2 * BACKOFF_BASE_MS

\* two 429 answers, a 'still running' answer, a 429 again: the initial wait
C7_Witness ==
    /\ log = <<"h429", "h429", "running", "h429">>
    /\ pc = "sleep_429"
    /\ wait = 2 * BACKOFF_BASE_MS

\* C8: an upload of at most MAX_SIZE_BYTES is never compressed, whatever its
\* extension: no compressor is called, workPath stays the upload, no second
\* file is created and the request is not answered 415.
C8_SizePassthrough ==
    (file.present /\ file.size <= MAX_SIZE_BYTES) =>
        /\ compressCalls = 0
        /\ pc \notin {"compress_pdf", "compress_img"}
        /\ workPath = "orig"
        /\ ~compressed
        /\ "out" \notin created
        /\ resStatus # 415

\* an upload of exactly the threshold with an unsupported extension went
\* through to a 200 answer
C8_Witness ==
    /\ file.present
    /\ file.size = MAX_SIZE_BYTES
    /\ file.name_ext = ".txt"
    /\ pc = "done"
    /\ resStatus = 200

\* C9: a .pdf upload above MAX_SIZE_BYTES on a server without Ghostscript
\* is answered 413; no compressor is started and nothing is posted.
C9_LargePdfWithoutGhostscript ==
    (/\ file.present
     /\ file.size > MAX_SIZE_BYTES
     /\ ExtToLower(file.name_ext) = ".pdf"
     /\ GS_CMD = "null") =>
        /\ compressCalls = 0
        /\ postCalls = 0
        /\ pc \in {"recv", "stat", "catch", "reply_error", "done"}
        /\ pc = "done" => resStatus = 413

\* such a request has been answered
C9_Witness ==
    /\ file.present
    /\ file.size > MAX_SIZE_BYTES
    /\ file.name_ext = ".PDF"
    /\ GS_CMD = "null"
    /\ pc = "done"
    /\ resStatus = 413

\* C10: whatever is posted was measured by the second stat and is at most
\* AZURE_MAX_BYTES; a working file measured above it is never posted and
\* the request is answered 413.
C10_NothingAboveCeilingPosted ==
    /\ postCalls > 0 =>
          /\ finalSize = WorkSize
          /\ WorkSize <= AZURE_MAX_BYTES
    /\ finalSize > AZURE_MAX_BYTES =>
          /\ postCalls = 0
          /\ pc \in {"catch", "reply_error", "done"}
          /\ pc = "done" => resStatus = 413

\* a compressed file still above the ceiling was refused
C10_Witness ==
    /\ compressed
    /\ finalSize > AZURE_MAX_BYTES
    /\ pc = "done"
    /\ resStatus = 413
    /\ postCalls = 0

ErrorPcs == {"catch", "reply_error", "done"}

\* C11: when the answer to the post is not a 2xx carrying an
\* operation-location header, no status fetch is ever issued and the
\* request is answered with a 5xx status after the cleanup.
C11_RejectedSubmissionEndsIn500 ==
    (postHttp # -1 /\ ~(postHttp >= 200 /\ postHttp < 300 /\ opLocation = "op")) =>
        /\ ~fetched
        /\ pc \in ErrorPcs
        /\ pc = "done" =>
              /\ resStatus >= 500 /\ resStatus < 600
              /\ "orig" \in unlinked

\* C12: a request without a file, or with an empty one, is answered 400 and
\* is never compressed or posted.
C12_MissingOrEmptyFileIs400 ==
    (~file.present \/ file.size = 0) =>
        /\ compressCalls = 0
        /\ postCalls = 0
        /\ pc = "done" => resStatus = 400

\* C13: an upload above MAX_SIZE_BYTES whose extension is neither .pdf nor
\* one of .png, .jpg, .jpeg, .tiff, .tif is answered 415; nothing is
\* compressed and nothing is posted.
C13_UnsupportedTypeIs415 ==
    (/\ file.present
     /\ file.size > MAX_SIZE_BYTES
     /\ ExtToLower(file.name_ext) \notin {".pdf", ".png", ".jpg", ".jpeg", ".tiff", ".tif"}) =>
        /\ compressCalls = 0
        /\ postCalls = 0
        /\ "out" \notin created
        /\ pc \in {"recv", "stat"} \cup ErrorPcs
        /\ pc = "done" => resStatus = 415

\* a large .txt upload has been refused
C13_Witness ==
    /\ file.present
    /\ file.size > MAX_SIZE_BYTES
    /\ file.name_ext = ".txt"
    /\ pc = "done"
    /\ resStatus = 415

\* C14: once the client has closed the connection no further status fetch
\* is issued.
C14_NoFetchAfterAbort ==
    ~fetchAfterAbort

\* C19: after an answer 'succeeded', 'failed', or an error other than 429
\* and 5xx, pollOperation has ended with no timer pending and no further
\* fetch: 'succeeded' returned, 'failed' raised the operation-failed error,
\* another error was rethrown as it came.
C19_TerminalAnswersEndPolling ==
    /\ (lastAnswer.http = 200 /\ lastAnswer.status = "succeeded") =>
          /\ pc \in {"normalize", "reply_ok"} \cup ErrorPcs
          /\ err.msg \in {"", "type_error"}
          /\ wait = 0
    /\ (lastAnswer.http = 200 /\ lastAnswer.status = "failed") =>
          /\ pc \in ErrorPcs
          /\ err.msg = "operation_failed"
          /\ wait = 0
    /\ (lastAnswer.http = 0 \/ (lastAnswer.http >= 400 /\ lastAnswer.http < 500
                                /\ lastAnswer.http # 429)) =>
          /\ pc \in ErrorPcs
          /\ err.msg = "poll_error"
          /\ err.http = lastAnswer.http
          /\ wait = 0

\* a 'failed' answer after a 429 and a 'still running' answer ended the request
C19_Witness ==
    /\ log = <<"h429", "running", "failed">>
    /\ lastAnswer.status = "failed"
    /\ pc = "done"
    /\ resStatus = 500

\* C20: the steps of a request come in order and, but for the status
\* fetches, once: a compressor is called at most once and never while or
\* after the post; the post is made at most once and only after a called
\* compressor resolved; a status fetch is issued only with an operation
\* location; the pages are built only after a 'succeeded' answer; the
\* response of a request with a file is sent only after its unlink calls; a
\* failed compression or post is followed by no second call.
C20_StepsInOrder ==
    /\ compressCalls <= 1
    /\ postCalls <= 1
    /\ pc \in {"compress_pdf", "compress_img"} => postCalls = 0
    /\ (postCalls = 1 /\ compressCalls = 1) => (compressed /\ workPath = "out")
    /\ fetched => (postCalls = 1 /\ opLocation = "op")
    /\ (pc \in {"normalize", "reply_ok"} \/ resStatus = 200) =>
          /\ fetched
          /\ lastAnswer.http = 200
          /\ lastAnswer.status \in {"succeeded", "Succeeded"}
    /\ (resStatus # 0 /\ file.present) =>
          /\ "orig" \in unlinked
          /\ "out" \in created => (workPath = "out" => "out" \in unlinked)
    /\ err.msg = "compress_failed" => (compressCalls = 1 /\ postCalls = 0)
    /\ err.msg \in {"submit_failed", "no_operation_location"} => (postCalls = 1 /\ ~fetched)

\* a compressed upload, posted, polled twice, answered 200
C20_Witness ==
    /\ compressed
    /\ log = <<"running", "succeeded">>
    /\ unlinked = {"orig", "out"}
    /\ pc = "done"
    /\ resStatus = 200

\* the entries of the first page list that the document carries, null
\* counting as no value: readResults, then pageResults, then pages, looked
\* up under analyzeResult when the document has one
ReportedEntries ==
    LET part == IF doc.hasAnalyzeResult THEN doc.inner ELSE doc.outer
        carried(v) == v.kind \notin {"absent", "null"}
        first == IF carried(part.readResults) THEN part.readResults
                 ELSE IF carried(part.pageResults) THEN part.pageResults
                 ELSE part.pages
    IN  IF first.kind = "list" THEN first.items ELSE << >>

C16_ExtractionNeverRaises ==
    /\ extPc # "threw"
    /\ (extPc = "extracted" /\ ReportedEntries = << >>) => pagesRaw = << >>

\* rawText as claimed: the page-level text fields first (text, then
\* content), then the joined lines, then the empty string
ClaimedRawText(p) ==
    IF p.text.kind = "string" THEN p.text.s
    ELSE IF p.content.kind = "string" THEN p.content.s
    ELSE IF p.lines.kind = "list" THEN JoinedLines(p.lines.items)
    ELSE << >>

\* C17: the rawText of every page of the response is the entry's text, else
\* its content, and is joined from the lines only when the entry has neither.
C17_TextFieldsBeforeLines ==
    extPc = "built" =>
        \A i \in 1..Len(response.pages) :
            response.pages[i].rawText = ClaimedRawText(ReportedEntries[i])

\* pageNumber as claimed: the first of page, pageNumber, pageIndex that the
\* entry has, whatever its value, and null when it has none
ClaimedPageNumber(p) ==
    IF p.page.kind = "number" THEN p.page
    ELSE IF p.pageNumber.kind = "number" THEN p.pageNumber
    ELSE IF p.pageIndex.kind = "number" THEN p.pageIndex
    ELSE NullNum

\* C18: the pageNumber of every page of the response is the value of the
\* first numbering field present on the entry, 0 included, and null only
\* when the entry has no numbering field.
C18_FirstPresentNumberingField ==
    extPc = "built" =>
        \A i \in 1..Len(response.pages) :
            response.pages[i].pageNumber = ClaimedPageNumber(ReportedEntries[i])

====
